---- MODULE Spec2Model ----
(***************************************************************************)
(* A model of regtest.py, the regression-test harness: the line            *)
(* normalizer, the ellipsis matcher, the diff engine, the truncation of    *)
(* the rendered diff, and main with its pool of run_test workers.          *)
(*                                                                         *)
(* Text is modelled as a sequence of one-character strings, a path as a    *)
(* sequence of path tokens.                                                *)
(***************************************************************************)
EXTENDS Integers, Sequences, FiniteSets, TLC

VARIABLES
    want, got, em_done, em_result,          \* ellipsis_match: arguments, result
    nf_content, nf_done, nf_lines,          \* normalize_file_lines: file content, yielded lines
    tl_output, tl_max, tl_done, tl_result,  \* truncate_lines: arguments, result
    d_exp, d_act, d_done, d_out, d_shown,   \* generate_unified_diff: the two files, the diff, what is printed
    argProgram, prog, argTests, fs,         \* main: sys.argv and the file system it inspects
    mainpc, tests, ntotal, summary, exitcode, \* main: position, test list, counts printed, exit status
    jobs, tmpdir,                           \* the run_test calls of the pool; the temporary directory
    detailed                                \* whether each call records the inputs it was given

emVars == <<want, got, em_done, em_result>>
nfVars == <<nf_content, nf_done, nf_lines>>
tlVars == <<tl_output, tl_max, tl_done, tl_result>>
dVars == <<d_exp, d_act, d_done, d_out, d_shown>>
inVars == <<argProgram, prog, argTests, fs>>
mainVars == <<mainpc, tests, ntotal, summary, exitcode>>
runVars == <<inVars, mainVars, jobs, tmpdir, detailed>>
vars == <<emVars, nfVars, tlVars, dVars, runVars>>

\* The variables of a function that a specification does not exercise
EmIdle == want = <<>> /\ got = <<>> /\ em_done = FALSE /\ em_result = FALSE
NfIdle == nf_content = <<>> /\ nf_done = FALSE /\ nf_lines = <<>>
TlIdle == tl_output = <<>> /\ tl_max = 0 /\ tl_done = FALSE /\ tl_result = <<>>
DIdle == d_exp = <<>> /\ d_act = <<>> /\ d_done = FALSE /\ d_out = <<>> /\ d_shown = <<>>
RunIdle ==
    /\ argProgram = FALSE /\ prog = <<>> /\ argTests = <<>> /\ fs = <<>>
    /\ mainpc = "idle" /\ tests = <<>> /\ ntotal = 0 /\ summary = <<>> /\ exitcode = 0
    /\ jobs = <<>> /\ tmpdir = {} /\ detailed = FALSE

----------------------------------------------------------------------------
(* Bounds of the model *)

MaxWantTokens == 4
MaxGotLen == 4
MaxContentLen == 5
MaxOutputLen == 5
MaxMaxLines == 3
MaxExpLines == 3
MaxTests == 2
NJobs == 2
MaxActLines == 2

----------------------------------------------------------------------------
(* Generic helpers on sequences *)

\* All sequences over S of length 0..n
SeqsUpTo(S, n) == UNION {[1..k -> S] : k \in 0..n}

RECURSIVE Flatten(_)
Flatten(ss) == IF ss = <<>> THEN <<>> ELSE Head(ss) \o Flatten(Tail(ss))

Last(s) == s[Len(s)]

\* Python slice s[i:j] for 0 <= i, j (0-based, end exclusive)
Slice(s, i, j) == SubSeq(s, i + 1, IF j > Len(s) THEN Len(s) ELSE j)

\* Python s.startswith(w) / s.endswith(w)
StartsWith(s, w) == Len(w) <= Len(s) /\ SubSeq(s, 1, Len(w)) = w
EndsWith(s, w) == Len(w) <= Len(s) /\ SubSeq(s, Len(s) - Len(w) + 1, Len(s)) = w

----------------------------------------------------------------------------
(* ellipsis_match *)

ELLIPSIS_MARKER == <<".", ".", ".">>

\* Python `sub in s`
Contains(s, sub) == \E i \in 0..(Len(s) - Len(sub)) : Slice(s, i, i + Len(sub)) = sub

\* Python s.find(w, start, end): lowest index i >= start with s[i:i+len(w)] = w
\* lying within s[start:end], or -1
Find(s, w, start, end) ==
    LET hi == IF end > Len(s) THEN Len(s) ELSE end
        hits == {i \in start..(hi - Len(w)) : Slice(s, i, i + Len(w)) = w}
    IN IF hits = {} THEN -1 ELSE CHOOSE i \in hits : \A j \in hits : i <= j

\* Python s.split(sep): cut at the leftmost non-overlapping occurrences of sep
RECURSIVE Split(_, _)
Split(s, sep) ==
    LET i == Find(s, sep, 0, Len(s))
    IN IF i < 0 THEN <<s>>
       ELSE <<Slice(s, 0, i)>> \o Split(Slice(s, i + Len(sep), Len(s)), sep)

FindPiecesNoAdvance(ws, g, startpos, endpos) ==
    \A k \in 1..Len(ws) : Find(g, ws[k], startpos, endpos) >= 0

\* The loop of lines 74-81: leftmost non-overlapping match of each piece
RECURSIVE FindPieces(_, _, _, _)
FindPieces(ws, g, startpos, endpos) ==
    IF ws = <<>> THEN TRUE
    ELSE LET p == Find(g, Head(ws), startpos, endpos)
         IN IF p < 0 THEN FALSE
            ELSE FindPieces(Tail(ws), g, p + Len(Head(ws)), endpos)

ellipsis_match(w, g) ==
    IF ~Contains(w, ELLIPSIS_MARKER) THEN w = g
    ELSE
      LET ws0 == Split(w, ELLIPSIS_MARKER)
          first == Head(ws0)
          startOk == first = <<>> \/ StartsWith(g, first)
          startpos == IF first # <<>> THEN Len(first) ELSE 0
          ws1 == IF first # <<>> THEN Tail(ws0) ELSE ws0
          last == Last(ws1)
          endOk == last = <<>> \/ EndsWith(g, last)
          endpos == IF last # <<>> THEN Len(g) - Len(last) ELSE Len(g)
          ws2 == IF last # <<>> THEN SubSeq(ws1, 1, Len(ws1) - 1) ELSE ws1
      IN IF ~startOk THEN FALSE
         ELSE IF ~endOk THEN FALSE
         ELSE IF startpos > endpos THEN FALSE
         ELSE FindPieces(ws2, g, startpos, endpos)

\* Inputs of the matcher: expected lines built from letters, dots and markers
WantTokens == {<<"a">>, <<"b">>, <<".">>, ELLIPSIS_MARKER}
GotChars == {"a", "b", "."}
ExampleWants ==
    { <<"a",".",".",".","a",".",".",".","a">>,
      <<".",".",".","b",".",".",".","a",".",".",".">>,
      <<"a","a",".",".",".","a","a">> }
ExampleGots ==
    { <<"a","a">>, <<"a","a","a">>, <<"a","b","a","b","a">>, <<"b","a","b","a","a">> }
Wants == {Flatten(ts) : ts \in SeqsUpTo(WantTokens, MaxWantTokens)} \cup ExampleWants
Gots == SeqsUpTo(GotChars, MaxGotLen) \cup ExampleGots

MatchInit ==
    /\ want \in Wants
    /\ got \in Gots
    /\ em_done = FALSE
    /\ em_result = FALSE
    /\ NfIdle /\ TlIdle /\ DIdle /\ RunIdle

CallEllipsisMatch ==
    /\ ~em_done
    /\ em_done' = TRUE
    /\ em_result' = ellipsis_match(want, got)
    /\ UNCHANGED <<want, got, nfVars, tlVars, dVars, runVars>>

MatchNext == CallEllipsisMatch
SpecMatch == MatchInit /\ [][MatchNext]_vars

\* The claim's reading of a match: got = s0 x1 s1 ... xn sn for arbitrary xi
RECURSIVE Decomposes(_, _)
Decomposes(segs, g) ==
    IF Len(segs) = 1 THEN g = segs[1]
    ELSE /\ StartsWith(g, segs[1])
         /\ \E k \in Len(segs[1])..Len(g) : Decomposes(Tail(segs), Slice(g, k, Len(g)))

\* C3: ellipsis_match(want, got) is true exactly when got decomposes into the
\* literal segments of want, in order, separated by arbitrary strings; without a
\* marker that is want = got, and 'a...a...a' does not match 'aa'.
C3_MatchIffDecomposition ==
    em_done =>
      /\ em_result = Decomposes(Split(want, ELLIPSIS_MARKER), got)
      /\ (~Contains(want, ELLIPSIS_MARKER) => (em_result = (want = got)))
      /\ (want = <<"a",".",".",".","a",".",".",".","a">> /\ got = <<"a","a">> => ~em_result)

\* A matching two-marker pattern whose middle piece needed the search, and the
\* rejected overlap case, are both exercised.
C3_Witness ==
    /\ em_done /\ em_result
    /\ Len(Split(want, ELLIPSIS_MARKER)) >= 3
    /\ Len(got) >= 3

----------------------------------------------------------------------------
(* normalize_file_lines *)

SP == " "
TAB == "\t"
LF == "\n"
CR == "\r"
\* A byte sequence that is not valid UTF-8
BADBYTE == "\\xff"

\* What \s of the regex and str.strip() treat as whitespace
Whitespace == {SP, TAB, LF, CR}

\* str.lower() on one character
LowerChar(c) == IF c = "A" THEN "a" ELSE IF c = "B" THEN "b" ELSE c
Lower(s) == [i \in 1..Len(s) |-> LowerChar(s[i])]

\* Iterating a text file opened with universal newlines: the physical lines,
\* each ending in "\n" (which also stands for "\r" and "\r\n") but possibly the last
RECURSIVE PhysicalLines(_)
PhysicalLines(c) ==
    IF c = <<>> THEN <<>>
    ELSE LET ends == {i \in 1..Len(c) : c[i] \in {LF, CR}}
         IN IF ends = {} THEN <<c>>
            ELSE LET e == CHOOSE i \in ends : \A j \in ends : i <= j
                     crlf == c[e] = CR /\ e < Len(c) /\ c[e + 1] = LF
                     nxt == IF crlf THEN e + 2 ELSE e + 1
                 IN <<Append(SubSeq(c, 1, e - 1), LF)>>
                        \o PhysicalLines(SubSeq(c, nxt, Len(c)))

\* _RE_COMBINE_WHITESPACE.sub(" ", line): every maximal whitespace run becomes one space
RECURSIVE CombineWhitespace(_)
CombineWhitespace(s) ==
    IF s = <<>> THEN <<>>
    ELSE IF Head(s) \in Whitespace
         THEN IF Len(s) >= 2 /\ s[2] \in Whitespace
              THEN CombineWhitespace(Tail(s))
              ELSE <<SP>> \o CombineWhitespace(Tail(s))
         ELSE <<Head(s)>> \o CombineWhitespace(Tail(s))

\* str.strip()
RECURSIVE LStrip(_)
LStrip(s) == IF s # <<>> /\ Head(s) \in Whitespace THEN LStrip(Tail(s)) ELSE s
RECURSIVE RStrip(_)
RStrip(s) == IF s # <<>> /\ Last(s) \in Whitespace
             THEN RStrip(SubSeq(s, 1, Len(s) - 1)) ELSE s
StripLeftOnly(s) == LStrip(s)
Strip(s) == RStrip(LStrip(s))

NormalizeLine(line) == Strip(CombineWhitespace(line))

RECURSIVE NormalizeLines(_)
NormalizeLines(ls) ==
    IF ls = <<>> THEN <<>>
    ELSE LET line == NormalizeLine(Head(ls))
         IN (IF line # <<>> THEN <<Lower(line)>> ELSE <<>>) \o NormalizeLines(Tail(ls))

\* Decoding as UTF-8 fails on an invalid byte
Decodable(c) == \A i \in 1..Len(c) : c[i] # BADBYTE

normalize_file_lines(c) == NormalizeLines(PhysicalLines(c))

ContentChars == {"a", "A", "b", SP, TAB, LF, CR}
ExampleContent == <<"a", TAB, TAB, "b", LF, LF, SP, SP, LF, "c">>
Contents == SeqsUpTo(ContentChars, MaxContentLen) \cup {ExampleContent}

NormInit ==
    /\ nf_content \in Contents
    /\ nf_done = FALSE
    /\ nf_lines = <<>>
    /\ EmIdle /\ TlIdle /\ DIdle /\ RunIdle

CallNormalize ==
    /\ ~nf_done
    /\ nf_done' = TRUE
    /\ nf_lines' = normalize_file_lines(nf_content)
    /\ UNCHANGED <<emVars, nf_content, tlVars, dVars, runVars>>

NormNext == CallNormalize
SpecNorm == NormInit /\ [][NormNext]_vars

\* The words of a text: its maximal runs of non-whitespace characters
RECURSIVE Words(_)
Words(s) ==
    IF s = <<>> THEN <<>>
    ELSE IF Head(s) \in Whitespace THEN Words(Tail(s))
    ELSE LET stops == {i \in 1..Len(s) : s[i] \in Whitespace}
             e == IF stops = {} THEN Len(s) + 1
                  ELSE CHOOSE i \in stops : \A j \in stops : i <= j
         IN <<SubSeq(s, 1, e - 1)>> \o Words(SubSeq(s, e, Len(s)))

RECURSIVE JoinWith(_, _)
JoinWith(ss, sep) ==
    IF ss = <<>> THEN <<>>
    ELSE IF Len(ss) = 1 THEN ss[1]
    ELSE ss[1] \o sep \o JoinWith(Tail(ss), sep)

\* The text cut at its line terminators "\n", "\r", "\r\n" (terminators dropped)
RECURSIVE SplitLinesFrom(_, _)
SplitLinesFrom(c, cur) ==
    IF c = <<>> THEN (IF cur = <<>> THEN <<>> ELSE <<cur>>)
    ELSE IF c[1] = CR /\ Len(c) >= 2 /\ c[2] = LF THEN <<cur>> \o SplitLinesFrom(SubSeq(c, 3, Len(c)), <<>>)
    ELSE IF c[1] \in {CR, LF} THEN <<cur>> \o SplitLinesFrom(Tail(c), <<>>)
    ELSE SplitLinesFrom(Tail(c), Append(cur, c[1]))

\* str.splitlines()
splitlines(c) == SplitLinesFrom(c, <<>>)

UpperChars == {"A", "B"}

\* What the claim says a line yields: its lower-cased words joined by one space
ExpectedYield(line) == JoinWith([k \in 1..Len(Words(line)) |-> Lower(Words(line)[k])], <<SP>>)

\* C8: the yielded lines are, in file order, the non-blank physical lines with
\* whitespace runs collapsed to one space, trimmed and lower-cased; so no yielded
\* line is empty, has leading, trailing, doubled or non-space whitespace, or an
\* upper-case letter, and the example content yields <<"a b", "c">>.
C8_NormalizedLines ==
    nf_done =>
      LET phys == splitlines(nf_content)
          kept == SelectSeq(phys, LAMBDA l : Words(l) # <<>>)
      IN /\ nf_lines = [k \in 1..Len(kept) |-> ExpectedYield(kept[k])]
         /\ \A k \in 1..Len(nf_lines) :
              LET y == nf_lines[k]
              IN /\ y # <<>>
                 /\ y[1] \notin Whitespace /\ Last(y) \notin Whitespace
                 /\ \A i \in 1..Len(y) :
                      /\ y[i] \notin (Whitespace \ {SP})
                      /\ y[i] \notin UpperChars
                      /\ (i < Len(y) => ~(y[i] \in Whitespace /\ y[i + 1] \in Whitespace))
         /\ (nf_content = ExampleContent => nf_lines = << <<"a", SP, "b">>, <<"c">> >>)

\* The example of the claim has been normalized
C8_Witness ==
    /\ nf_done
    /\ nf_content = ExampleContent
    /\ Len(nf_lines) = 2

----------------------------------------------------------------------------
(* truncate_lines *)

TRUNCATED == <<".", ".", ".", "t", "r", "u", "n", "c", "a", "t", "e", "d">>

\* Python list slice lines[:n]
Take(ls, n) == SubSeq(ls, 1, IF n > Len(ls) THEN Len(ls) ELSE n)

truncate_lines_silent(output, max_lines) ==
    LET lines == splitlines(output)
    IN IF Len(lines) <= max_lines THEN output
       ELSE JoinWith(Take(lines, max_lines), <<LF>>)

truncate_lines(output, max_lines) ==
    LET lines == splitlines(output)
    IN IF Len(lines) <= max_lines THEN output
       ELSE JoinWith(Take(lines, max_lines) \o <<TRUNCATED>>, <<LF>>)

OutputChars == {"x", LF, CR}
Outputs == SeqsUpTo(OutputChars, MaxOutputLen) \cup { <<"x", LF>> \o TRUNCATED \o <<LF, "x">> }

TruncInit ==
    /\ tl_output \in Outputs
    /\ tl_max \in 0..MaxMaxLines
    /\ tl_done = FALSE
    /\ tl_result = <<>>
    /\ EmIdle /\ NfIdle /\ DIdle /\ RunIdle

CallTruncateLines ==
    /\ ~tl_done
    /\ tl_done' = TRUE
    /\ tl_result' = truncate_lines(tl_output, tl_max)
    /\ UNCHANGED <<tl_output, tl_max, emVars, nfVars, dVars, runVars>>

TruncNext == CallTruncateLines
SpecTrunc == TruncInit /\ [][TruncNext]_vars

IsProperPrefix(p, s) == Len(p) < Len(s) /\ SubSeq(s, 1, Len(p)) = p

\* C9: truncate_lines returns its input unchanged when it has at most max_lines
\* lines, and otherwise the first max_lines lines followed by one last line
\* "...truncated"; the result is never a proper prefix of the input's lines
\* that lacks the marker line.
C9_TruncateMarked ==
    tl_done =>
      LET lines == splitlines(tl_output)
          res == splitlines(tl_result)
      IN /\ (Len(lines) <= tl_max => tl_result = tl_output)
         /\ (Len(lines) > tl_max =>
               /\ Len(res) = tl_max + 1
               /\ SubSeq(res, 1, tl_max) = SubSeq(lines, 1, tl_max)
               /\ res[tl_max + 1] = TRUNCATED)
         /\ ~(IsProperPrefix(res, lines) /\ (res = <<>> \/ Last(res) # TRUNCATED))

\* An output of more than max_lines lines has been cut
C9_Witness ==
    /\ tl_done
    /\ tl_max >= 1
    /\ Len(splitlines(tl_output)) > tl_max
    /\ tl_result # tl_output

----------------------------------------------------------------------------
(* generate_unified_diff: the pairwise scan, then difflib.unified_diff *)

Max(x, y) == IF x >= y THEN x ELSE y
Min(x, y) == IF x <= y THEN x ELSE y

\* zip(lines1, lines2), which stops at the shorter list
zip_shortest(l1, l2) == [k \in 1..Min(Len(l1), Len(l2)) |-> <<l1[k], l2[k]>>]

\* itertools.zip_longest(lines1, lines2, fillvalue="")
zip_longest(l1, l2) ==
    [k \in 1..Max(Len(l1), Len(l2)) |->
        <<IF k <= Len(l1) THEN l1[k] ELSE <<>>, IF k <= Len(l2) THEN l2[k] ELSE <<>> >>]

\* The scan of lines 93-97: equal stays True iff no pair fails to match
ScanEqual(l1, l2) ==
    LET pairs == zip_longest(l1, l2)
    IN \A k \in 1..Len(pairs) : ellipsis_match(pairs[k][1], pairs[k][2])

\* SequenceMatcher.find_longest_match without junk: the longest block
\* a[i:i+k] = b[j:j+k] in a[alo:ahi], b[blo:bhi], earliest in a, then earliest in b
find_longest_match(a, b, alo, ahi, blo, bhi) ==
    LET blocks == {<<i, j, k>> \in (alo..ahi) \X (blo..bhi) \X (0..(ahi - alo)) :
                      /\ i + k <= ahi /\ j + k <= bhi
                      /\ Slice(a, i, i + k) = Slice(b, j, j + k)}
        Better(x, y) == \/ x[3] > y[3]
                        \/ x[3] = y[3] /\ x[1] < y[1]
                        \/ x[3] = y[3] /\ x[1] = y[1] /\ x[2] <= y[2]
    IN IF \A x \in blocks : x[3] = 0 THEN <<alo, blo, 0>>
       ELSE CHOOSE x \in blocks : \A y \in blocks : Better(x, y)

\* SequenceMatcher.get_matching_blocks: the recursion on both sides of the
\* longest match, in order
RECURSIVE MatchingBlocksIn(_, _, _, _, _, _)
BlocksAround(a, b, alo, ahi, blo, bhi, m) ==
    IF m[3] = 0 THEN <<>>
    ELSE (IF alo < m[1] /\ blo < m[2]
             THEN MatchingBlocksIn(a, b, alo, m[1], blo, m[2]) ELSE <<>>)
         \o <<m>>
         \o (IF m[1] + m[3] < ahi /\ m[2] + m[3] < bhi
             THEN MatchingBlocksIn(a, b, m[1] + m[3], ahi, m[2] + m[3], bhi) ELSE <<>>)
MatchingBlocksIn(a, b, alo, ahi, blo, bhi) ==
    BlocksAround(a, b, alo, ahi, blo, bhi, find_longest_match(a, b, alo, ahi, blo, bhi))

\* Adjacent blocks are merged
RECURSIVE CollapseBlocks(_)
CollapseBlocks(bs) ==
    IF Len(bs) <= 1 THEN bs
    ELSE IF bs[1][1] + bs[1][3] = bs[2][1] /\ bs[1][2] + bs[1][3] = bs[2][2]
         THEN CollapseBlocks(<< <<bs[1][1], bs[1][2], bs[1][3] + bs[2][3]>> >> \o SubSeq(bs, 3, Len(bs)))
         ELSE <<bs[1]>> \o CollapseBlocks(Tail(bs))

get_matching_blocks(a, b) ==
    Append(CollapseBlocks(MatchingBlocksIn(a, b, 0, Len(a), 0, Len(b))), <<Len(a), Len(b), 0>>)

\* SequenceMatcher.get_opcodes: <<tag, i1, i2, j1, j2>>
RECURSIVE OpcodesFrom(_, _, _)
OpcodesFrom(blocks, i, j) ==
    IF blocks = <<>> THEN <<>>
    ELSE LET ai == blocks[1][1]
             bj == blocks[1][2]
             size == blocks[1][3]
             tag == IF i < ai /\ j < bj THEN "replace"
                    ELSE IF i < ai THEN "delete"
                    ELSE IF j < bj THEN "insert" ELSE ""
         IN (IF tag # "" THEN << <<tag, i, ai, j, bj>> >> ELSE <<>>)
            \o (IF size > 0 THEN << <<"equal", ai, ai + size, bj, bj + size>> >> ELSE <<>>)
            \o OpcodesFrom(Tail(blocks), ai + size, bj + size)

get_opcodes(a, b) == OpcodesFrom(get_matching_blocks(a, b), 0, 0)

\* Lines of context of a unified diff (the default n of difflib.unified_diff)
ContextLines == 3

\* SequenceMatcher.get_grouped_opcodes(n): the loop over the trimmed opcodes
RECURSIVE GroupLoop(_, _, _)
GroupLoop(codes, group, n) ==
    IF codes = <<>>
    THEN IF group # <<>> /\ ~(Len(group) = 1 /\ group[1][1] = "equal") THEN <<group>> ELSE <<>>
    ELSE LET c == codes[1]
         IN IF c[1] = "equal" /\ c[3] - c[2] > n + n
            THEN <<Append(group, <<c[1], c[2], Min(c[3], c[2] + n), c[4], Min(c[5], c[4] + n)>>)>>
                 \o GroupLoop(Tail(codes),
                              << <<c[1], Max(c[2], c[3] - n), c[3], Max(c[4], c[5] - n), c[5]>> >>, n)
            ELSE GroupLoop(Tail(codes), Append(group, c), n)

\* The first and the last opcode, when "equal", keep n lines of context
TrimFirst(codes, n) ==
    IF codes[1][1] = "equal"
    THEN [codes EXCEPT ![1] = <<@[1], Max(@[2], @[3] - n), @[3], Max(@[4], @[5] - n), @[5]>>]
    ELSE codes
TrimLast(codes, n) ==
    IF codes[Len(codes)][1] = "equal"
    THEN [codes EXCEPT ![Len(codes)] = <<@[1], @[2], Min(@[3], @[2] + n), @[4], Min(@[5], @[4] + n)>>]
    ELSE codes
OrOneEqual(codes) == IF codes = <<>> THEN << <<"equal", 0, 1, 0, 1>> >> ELSE codes

get_grouped_opcodes(a, b, n) ==
    GroupLoop(TrimLast(TrimFirst(OrOneEqual(get_opcodes(a, b)), n), n), <<>>, n)

\* str(n) for a natural number
Digits == <<"0", "1", "2", "3", "4", "5", "6", "7", "8", "9">>
RECURSIVE NatStr(_)
NatStr(n) == IF n < 10 THEN <<Digits[n + 1]>> ELSE NatStr(n \div 10) \o <<Digits[(n % 10) + 1]>>

\* difflib._format_range_unified
format_range_unified(start, stop) ==
    LET length == stop - start
    IN IF length = 1 THEN NatStr(start + 1)
       ELSE NatStr(IF length = 0 THEN start ELSE start + 1) \o <<",">> \o NatStr(length)

Prefixed(c, ls, lo, hi) == [k \in 1..(hi - lo) |-> <<c>> \o ls[lo + k]]

RECURSIVE HunkLines(_, _, _)
HunkLines(group, a, b) ==
    IF group = <<>> THEN <<>>
    ELSE LET c == group[1]
         IN (IF c[1] = "equal" THEN Prefixed(" ", a, c[2], c[3])
             ELSE (IF c[1] \in {"replace", "delete"} THEN Prefixed("-", a, c[2], c[3]) ELSE <<>>)
                  \o (IF c[1] \in {"replace", "insert"} THEN Prefixed("+", b, c[4], c[5]) ELSE <<>>))
            \o HunkLines(Tail(group), a, b)

RECURSIVE Hunks(_, _, _)
Hunks(groups, a, b) ==
    IF groups = <<>> THEN <<>>
    ELSE LET g == groups[1]
         IN << <<"@", "@", " ", "-">> \o format_range_unified(g[1][2], g[Len(g)][3])
               \o <<" ", "+">> \o format_range_unified(g[1][4], g[Len(g)][5])
               \o <<" ", "@", "@">> >>
            \o HunkLines(g, a, b) \o Hunks(Tail(groups), a, b)

DiffOfGroups(groups, a, b, fromfile, tofile) ==
    IF groups = <<>> THEN <<>>
    ELSE << <<"-", "-", "-", " ">> \o fromfile, <<"+", "+", "+", " ">> \o tofile >>
         \o Hunks(groups, a, b)

\* difflib.unified_diff(a, b, fromfile, tofile, lineterm=""): the lines of the diff
unified_diff(a, b, fromfile, tofile) ==
    DiffOfGroups(get_grouped_opcodes(a, b, ContextLines), a, b, fromfile, tofile)

\* Lines 91-105: the scan decides; only a mismatch renders the diff
DiffOfLines(file1, lines1, file2, lines2) ==
    IF ScanEqual(lines1, lines2) THEN <<>>
    ELSE JoinWith(unified_diff(lines1, lines2, file1, file2), <<LF>>)

\* generate_unified_diff on the contents of the two files named file1, file2
generate_unified_diff(file1, c1, file2, c2) ==
    DiffOfLines(file1, normalize_file_lines(c1), file2, normalize_file_lines(c2))

\* max_lines of the call in run_test
DiffMaxLines == 20

\* Raw files: a few lines each, every line ended by a newline
ExpRawLines == { <<"a">>, <<"A", SP>>, ELLIPSIS_MARKER, <<"a", ".", ".", ".">> }
ActRawLines == { <<"a">>, <<"b">>, <<"a", TAB, "b">>, <<SP>> }
FileOf(ls) == Flatten([k \in 1..Len(ls) |-> Append(ls[k], LF)])
ExpFiles == {FileOf(ls) : ls \in SeqsUpTo(ExpRawLines, MaxExpLines)}
ActFiles == {FileOf(ls) : ls \in SeqsUpTo(ActRawLines, MaxActLines)}
ExpName == <<"t", ".exp">>
OutName == <<"t", ".out">>

DiffInit ==
    /\ d_exp \in ExpFiles
    /\ d_act \in ActFiles
    /\ d_done = FALSE
    /\ d_out = <<>>
    /\ d_shown = <<>>
    /\ EmIdle /\ NfIdle /\ TlIdle /\ RunIdle

\* Lines 175-182 of run_test: the diff, and what is printed of it on failure
CallGenerateUnifiedDiff ==
    /\ ~d_done
    /\ d_done' = TRUE
    /\ LET diff_output == generate_unified_diff(ExpName, d_exp, OutName, d_act)
       IN /\ d_out' = diff_output
          /\ d_shown' = IF Len(diff_output) = 0 THEN <<>>
                        ELSE truncate_lines(diff_output, DiffMaxLines)
    /\ UNCHANGED <<d_exp, d_act, emVars, nfVars, tlVars, runVars>>

DiffNext == CallGenerateUnifiedDiff
SpecDiff == DiffInit /\ [][DiffNext]_vars

\* The position-paired comparison of the claim: the shorter list padded with ""
PairAt(ls, k) == IF k <= Len(ls) THEN ls[k] ELSE <<>>
AllPairsMatch(l1, l2) ==
    \A k \in 1..Max(Len(l1), Len(l2)) : ellipsis_match(PairAt(l1, k), PairAt(l2, k))

\* C4: the diff is empty (the test passes) exactly when every position-paired,
\* ""-padded pair of normalized lines satisfies ellipsis_match(expected, actual);
\* a mismatching pair, an extra actual line included, gives a non-empty diff.
C4_EmptyDiffIffPairsMatch ==
    d_done =>
      LET l1 == normalize_file_lines(d_exp)
          l2 == normalize_file_lines(d_act)
      IN /\ (d_out = <<>>) <=> AllPairsMatch(l1, l2)
         /\ (Len(l2) > Len(l1) => d_out # <<>>)

\* Files that differ in raw bytes and in normalized lines, yet pass through a wildcard
C4_Witness ==
    /\ d_done
    /\ d_out = <<>>
    /\ normalize_file_lines(d_exp) # normalize_file_lines(d_act)
    /\ Len(normalize_file_lines(d_act)) >= 2

----------------------------------------------------------------------------
(* Paths, the file system and the temporary directory *)

TEST_EXT == ".test"

\* str.replace(old, new) on a path: every occurrence is replaced
str_replace(p, old, new) == Flatten([k \in 1..Len(p) |-> IF p[k] = old THEN new ELSE <<p[k]>>])

\* os.path.basename
basename(p) ==
    LET slashes == {i \in 1..Len(p) : p[i] = "/"}
    IN IF slashes = {} THEN p
       ELSE SubSeq(p, (CHOOSE i \in slashes : \A j \in slashes : j <= i) + 1, Len(p))

\* str.endswith with a one-token suffix
EndsWithExt(p, ext) == p # <<>> /\ Last(p) = ext

\* The files the invocation can name: one x.test in each of a few directories
\* (the same base name everywhere), and a file that is no test
DirNames == <<"a", "b", "c", "d", "e", "f">>
TestPath(k) == <<DirNames[k], "/", "x", TEST_EXT>>
SortedTestPaths == [k \in 1..MaxTests |-> TestPath(k)]
PathTxt == <<"x", ".txt">>
AllPaths == {TestPath(k) : k \in 1..MaxTests} \cup {PathTxt}

\* What the file system holds at a path
FileKinds == {"file", "unreadable", "missing"}

\* os.path.isfile
isfile(p) == fs[p] \in {"file", "unreadable"}

\* sorted(glob.glob("**/*.test", recursive=True))
glob_tests == SelectSeq(SortedTestPaths, LAMBDA p : fs[p] # "missing")

\* is_exe on the attributes of the resolved program path
is_exe(f) == f.isfile /\ f.xok /\ f.size > 0

ProgFiles ==
    { [isfile |-> TRUE, xok |-> TRUE, size |-> 1],
      [isfile |-> FALSE, xok |-> FALSE, size |-> 0],
      [isfile |-> TRUE, xok |-> FALSE, size |-> 1],
      [isfile |-> TRUE, xok |-> TRUE, size |-> 0] }

ExpectedFileXzMismatch(test, expR, xzR) ==
    LET expfile == str_replace(test, TEST_EXT, <<".exp">>)
    IN IF ~expR /\ xzR
       THEN [expfile |-> Append(expfile, ".xz"), out_ext |-> <<".out">>]
       ELSE [expfile |-> expfile, out_ext |-> <<".out">>]

\* Lines 155-159 of run_test: the expected file and the extension of the output file
ExpectedFile(test, expR, xzR) ==
    LET expfile == str_replace(test, TEST_EXT, <<".exp">>)
    IN IF ~expR /\ xzR
       THEN [expfile |-> Append(expfile, ".xz"), out_ext |-> <<".out", ".xz">>]
       ELSE [expfile |-> expfile, out_ext |-> <<".out">>]

\* The suffix given to mkstemp (line 162)
OutSuffix(test, out_ext) == <<"_">> \o str_replace(basename(test), TEST_EXT, out_ext)

\* The random parts tempfile can draw: as many as there can be output files,
\* so that a name not in use always exists
RandNames == 1..MaxTests

Exists(dir, name) == \E f \in dir : f.name = name
FileAt(dir, name) == CHOOSE f \in dir : f.name = name

mkstemp_any(dir, suffix) == {<<"tmp">> \o NatStr(r) \o suffix : r \in RandNames}

\* tempfile.mkstemp(suffix=...): the names it can return, those of no existing
\* file (the file is created with O_EXCL)
mkstemp(dir, suffix) ==
    {n \in {<<"tmp">> \o NatStr(r) \o suffix : r \in RandNames} : ~Exists(dir, n)}

\* The exit statuses a test script may end with
ReturnCodes == {0, 1, 127}
\* Where the environment can fail a runcmd call
Faults == {"none", "launch", "write"}

runcmd_check(outfile, stdout, returncode, fault) ==
    [raised |-> fault # "none" \/ returncode # 0,
     returncode |-> returncode,
     file |-> [name |-> outfile, data |-> stdout, xz |-> EndsWithExt(outfile, ".xz")]]

\* runcmd with an output file: subprocess.run (no check=True) raises only when the
\* shell cannot be launched; then the captured bytes are written, compressed iff the
\* name ends in .xz, and the exit status is returned
runcmd(outfile, stdout, returncode, fault) ==
    [raised |-> fault # "none",
     returncode |-> returncode,
     file |-> [name |-> outfile, data |-> stdout, xz |-> EndsWithExt(outfile, ".xz")]]

\* Opening path as text raises when the file is missing or unreadable, is not in
\* the container its name announces, or does not decode
ReadRaises(path, present, file) ==
    \/ ~present
    \/ file.xz # EndsWithExt(path, ".xz")
    \/ ~Decodable(file.data)

\* Lines 175-187 of run_test: "raised", "passed" or "failed"
CompareOutcome(expfile, expOk, expdata, outfile, dir) ==
    LET efile == [name |-> expfile, data |-> expdata, xz |-> EndsWithExt(expfile, ".xz")]
        opresent == Exists(dir, outfile)
        ofile == IF opresent THEN FileAt(dir, outfile) ELSE efile
    IN IF ReadRaises(expfile, expOk, efile) \/ ReadRaises(outfile, opresent, ofile)
       THEN "raised"
       ELSE IF Len(generate_unified_diff(expfile, expdata, outfile, ofile.data)) = 0
            THEN "passed" ELSE "failed"

----------------------------------------------------------------------------
(* main and the worker pool *)

NoHist == [expR |-> FALSE, xzR |-> FALSE, rc |-> 0, fault |-> "none", expdata |-> <<>>, recorded |-> FALSE]
PendingJob == [st |-> "pending", expfile |-> <<>>, expOk |-> FALSE, outfile |-> <<>>,
               stdout |-> <<>>, hist |-> NoHist]
NothingPrinted == [kind |-> "none", total |-> 0, passed |-> 0, failed |-> 0]
Diagnostic(k) == [kind |-> k, total |-> 0, passed |-> 0, failed |-> 0]

TextA == <<"a", LF>>
TextB == <<"b", LF>>
TextWild == <<"a", ".", ".", ".", LF>>
TextAB == <<"A", SP, "b", LF>>
TextBad == <<BADBYTE>>
\* What the script of a test may print: any of a few texts when one call is
\* examined; in a run of the pool, the name of the directory it is sourced in
Stdouts(test) == IF detailed THEN {TextA, TextB, TextAB, TextBad} ELSE {<<test[1], LF>>, TextBad}
\* What the expected file may hold
Expecteds == IF detailed THEN {TextA, TextWild, TextBad} ELSE {TextA, TextB, TextBad}

RunInputs ==
    /\ argProgram \in BOOLEAN
    /\ prog \in ProgFiles
    /\ argTests \in SeqsUpTo(AllPaths, MaxTests)
    /\ (~argProgram => argTests = <<>>)
    /\ fs \in [AllPaths -> FileKinds]
    /\ fs[PathTxt] = "file"

RunStart ==
    /\ mainpc = "start" /\ tests = <<>> /\ ntotal = 0
    /\ summary = NothingPrinted /\ exitcode = 0
    /\ jobs = <<>> /\ tmpdir = {}

RunInit ==
    /\ RunInputs /\ RunStart
    /\ detailed = FALSE
    /\ EmIdle /\ NfIdle /\ TlIdle /\ DIdle

\* An invocation that passes every check of main, all its files being readable
ValidInvocation ==
    /\ argProgram /\ is_exe(prog)
    /\ \A p \in AllPaths : fs[p] \in {"file", "missing"}
    /\ \A k \in 1..Len(argTests) : EndsWithExt(argTests[k], TEST_EXT) /\ fs[argTests[k]] = "file"

\* The pool on the invocations that name no test and run every test found
PoolInit ==
    /\ RunInputs /\ RunStart /\ ValidInvocation
    /\ argTests = <<>>
    /\ detailed = FALSE
    /\ EmIdle /\ NfIdle /\ TlIdle /\ DIdle

\* One run_test call, its inputs recorded
TestInit ==
    /\ RunInputs /\ RunStart /\ ValidInvocation
    /\ Len(argTests) = 1
    /\ detailed = TRUE
    /\ EmIdle /\ NfIdle /\ TlIdle /\ DIdle

\* Lines 201-205: the tests named on the command line, or those found
ChosenTests == IF argTests = <<>> THEN glob_tests ELSE argTests

Exit(code, what) ==
    /\ mainpc' = "exited"
    /\ exitcode' = code
    /\ summary' = what
    /\ UNCHANGED <<inVars, tests, ntotal, jobs, tmpdir, detailed, emVars, nfVars, tlVars, dVars>>

\* Lines 191-194
MainUsage ==
    /\ mainpc = "start"
    /\ ~argProgram
    /\ Exit(1, Diagnostic("usage"))

\* Lines 196-199
MainProgramError ==
    /\ mainpc = "start"
    /\ argProgram /\ ~is_exe(prog)
    /\ Exit(1, Diagnostic("program"))

\* Lines 206-212: the first test that fails a check ends the run
MainTestError ==
    /\ mainpc = "start"
    /\ argProgram /\ is_exe(prog)
    /\ \E k \in 1..Len(ChosenTests) :
         /\ \A j \in 1..(k - 1) : EndsWithExt(ChosenTests[j], TEST_EXT) /\ isfile(ChosenTests[j])
         /\ ~(EndsWithExt(ChosenTests[k], TEST_EXT) /\ isfile(ChosenTests[k]))
         /\ Exit(1, Diagnostic(IF ~EndsWithExt(ChosenTests[k], TEST_EXT)
                               THEN "not a test file" ELSE "not found or not readable"))

\* Lines 214-216: every test passed the checks and is handed to the pool
MainSubmit ==
    /\ mainpc = "start"
    /\ argProgram /\ is_exe(prog)
    /\ \A k \in 1..Len(ChosenTests) : EndsWithExt(ChosenTests[k], TEST_EXT) /\ isfile(ChosenTests[k])
    /\ mainpc' = "parallel"
    /\ tests' = ChosenTests
    /\ ntotal' = Len(ChosenTests)
    /\ jobs' = [k \in 1..Len(ChosenTests) |-> PendingJob]
    /\ UNCHANGED <<inVars, summary, exitcode, tmpdir, detailed, emVars, nfVars, tlVars, dVars>>

Running == {i \in 1..Len(jobs) : jobs[i].st \in {"created", "ran"}}

WorkerFrame == UNCHANGED <<inVars, mainVars, detailed, emVars, nfVars, tlVars, dVars>>

\* run_test, lines 151-163: a free worker takes the next test, settles the
\* expected file and creates the output file
Start(i) ==
    /\ mainpc = "parallel"
    /\ jobs[i].st = "pending"
    /\ \A k \in 1..(i - 1) : jobs[k].st # "pending"
    /\ Cardinality(Running) < NJobs
    /\ \E expR \in BOOLEAN, xzR \in BOOLEAN :
         LET e == ExpectedFile(tests[i], expR, xzR)
         IN \E name \in mkstemp(tmpdir, OutSuffix(tests[i], e.out_ext)) :
              /\ jobs' = [jobs EXCEPT ![i] =
                            [@ EXCEPT !.st = "created", !.expfile = e.expfile,
                                      !.expOk = IF EndsWithExt(e.expfile, ".xz") THEN xzR ELSE expR,
                                      !.outfile = name,
                                      !.hist = IF detailed
                                               THEN [@ EXCEPT !.expR = expR, !.xzR = xzR, !.recorded = TRUE]
                                               ELSE @]]
              /\ tmpdir' = {f \in tmpdir : f.name # name}
                              \cup {[name |-> name, data |-> <<>>, xz |-> FALSE]}
    /\ WorkerFrame

\* run_test, lines 167-172: the script runs and its output is written
Run(i) ==
    /\ mainpc = "parallel"
    /\ jobs[i].st = "created"
    /\ \E out \in Stdouts(tests[i]), rc \in ReturnCodes, fault \in Faults :
         LET r == runcmd(jobs[i].outfile, out, rc, fault)
             h == IF detailed THEN [jobs[i].hist EXCEPT !.rc = rc, !.fault = fault]
                  ELSE jobs[i].hist
         IN IF r.raised
            THEN /\ jobs' = [jobs EXCEPT ![i] = [@ EXCEPT !.st = "raised", !.hist = h]]
                 /\ UNCHANGED tmpdir
            ELSE /\ jobs' = [jobs EXCEPT ![i] = [@ EXCEPT !.st = "ran", !.stdout = out, !.hist = h]]
                 /\ tmpdir' = {f \in tmpdir : f.name # r.file.name} \cup {r.file}
    /\ WorkerFrame

\* run_test, lines 175-187: the comparison, the verdict, and the removal of the
\* output file of a passed test
Compare(i) ==
    /\ mainpc = "parallel"
    /\ jobs[i].st = "ran"
    /\ \E expdata \in Expecteds :
         LET o == CompareOutcome(jobs[i].expfile, jobs[i].expOk, expdata, jobs[i].outfile, tmpdir)
             h == IF detailed THEN [jobs[i].hist EXCEPT !.expdata = expdata] ELSE jobs[i].hist
         IN /\ jobs' = [jobs EXCEPT ![i] = [@ EXCEPT !.st = o, !.hist = h]]
            /\ tmpdir' = IF o = "passed" THEN {f \in tmpdir : f.name # jobs[i].outfile} ELSE tmpdir
    /\ WorkerFrame

\* Lines 216-228: every call returned; the counts are printed and main exits
MainSummary ==
    /\ mainpc = "parallel"
    /\ \A i \in 1..Len(jobs) : jobs[i].st \in {"passed", "failed"}
    /\ LET npassed == Cardinality({i \in 1..Len(jobs) : jobs[i].st = "passed"})
           nfailed == ntotal - npassed
       IN Exit(IF nfailed > 0 THEN 1 ELSE 0,
               [kind |-> "summary", total |-> ntotal, passed |-> npassed, failed |-> nfailed])

\* Line 216: Parallel re-raises in main the exception of a call; nothing catches
\* it, so the interpreter prints the traceback and exits with status 1
MainCrash ==
    /\ mainpc = "parallel"
    /\ \E i \in 1..Len(jobs) : jobs[i].st = "raised"
    /\ Exit(1, Diagnostic("traceback"))

Workers == \E i \in 1..Len(jobs) : Start(i) \/ Run(i) \/ Compare(i)

RunNext ==
    \/ MainUsage
    \/ MainProgramError
    \/ MainTestError
    \/ MainSubmit
    \/ Workers
    \/ MainSummary
    \/ MainCrash

SpecRun == RunInit /\ [][RunNext]_vars

PoolNext ==
    \/ MainSubmit
    \/ Workers
    \/ MainSummary
    \/ MainCrash

SpecPool == PoolInit /\ [][PoolNext]_vars
SpecTest == TestInit /\ [][PoolNext]_vars

----------------------------------------------------------------------------
(* The claims about main and run_test *)

\* main reached line 216 and handed its tests to the pool
Submitted == mainpc = "parallel" \/ (mainpc = "exited" /\ summary.kind \in {"summary", "traceback"})
JobIds == 1..Len(jobs)
NFailedVerdicts == Cardinality({i \in JobIds : jobs[i].st = "failed"})

\* C1: after main submitted N tests, the summary reports total = N,
\* failed = K (the tests with a failed verdict) and passed = N - K, and the exit
\* status is 1 iff K > 0.
C1_SummaryCounts ==
    (mainpc = "exited" /\ Submitted) =>
        /\ summary.kind = "summary"
        /\ summary.total = Len(jobs)
        /\ summary.failed = NFailedVerdicts
        /\ summary.passed = Len(jobs) - NFailedVerdicts
        /\ exitcode = (IF NFailedVerdicts > 0 THEN 1 ELSE 0)

\* C2: a test that hits an execution failure or a decode error is counted as one
\* failed test: every other test still runs to a result, and the summary is
\* printed with exit status 1.
C2_FailureIsolated ==
    (mainpc = "exited" /\ \E i \in JobIds : jobs[i].st = "raised") =>
        /\ \A i \in JobIds : jobs[i].st \in {"passed", "failed", "raised"}
        /\ summary.kind = "summary"
        /\ summary.total = Len(jobs)
        /\ summary.failed = Cardinality({i \in JobIds : jobs[i].st \in {"failed", "raised"}})
        /\ exitcode = 1

Started(i) == jobs[i].st # "pending"
\* The output file of the call has been created and not removed
FileHeld(i) == jobs[i].st \in {"created", "ran", "failed", "raised"}

\* C5 as stated: the output paths of all started tests are pairwise distinct.
C5_StartedOutputsDistinct ==
    \A i \in JobIds, j \in JobIds :
        (i # j /\ Started(i) /\ Started(j)) => jobs[i].outfile # jobs[j].outfile

\* C5 (amended): the output paths of all started tests whose output file has not
\* been removed are pairwise distinct; each such file exists and, once written,
\* holds what its own test wrote, so no worker writes or deletes a file that
\* another test's comparison reads.
C5_HeldOutputsDistinct ==
    /\ \A i \in JobIds, j \in JobIds :
         (i # j /\ FileHeld(i) /\ FileHeld(j)) => jobs[i].outfile # jobs[j].outfile
    /\ \A i \in JobIds :
         FileHeld(i) =>
            /\ Exists(tmpdir, jobs[i].outfile)
            /\ (jobs[i].st = "ran" => FileAt(tmpdir, jobs[i].outfile).data = jobs[i].stdout)

\* Two tests of one base name in different directories hold output files at the same time
C5_Witness ==
    /\ Len(jobs) >= 2
    /\ tests[1] # tests[2] /\ basename(tests[1]) = basename(tests[2])
    /\ jobs[1].st = "ran" /\ jobs[2].st = "ran"
    /\ Last(jobs[1].outfile) = Last(jobs[2].outfile)

\* What the claim calls a usage error
BadInvocation ==
    \/ ~argProgram
    \/ ~is_exe(prog)
    \/ \E k \in 1..Len(argTests) :
         \/ ~EndsWithExt(argTests[k], TEST_EXT)
         \/ fs[argTests[k]] # "file"

\* C6: on a missing program argument, a program that is not an executable
\* non-empty file, a test path without the .test suffix, or a test path that
\* does not exist or is not readable, main exits with status 1 and a
\* diagnostic, and no run_test call is ever started.
C6_UsageErrorBeforeTests ==
    (mainpc # "idle" /\ BadInvocation) =>
        /\ \A i \in JobIds : ~Started(i)
        /\ mainpc # "parallel"
        /\ (mainpc = "exited" =>
              exitcode = 1 /\ summary.kind \in {"usage", "program", "not a test file",
                                                "not found or not readable"})

\* C7: the verdict is the comparison alone, whatever the exit status: a call
\* that returns passes exactly when the captured output matches the expected
\* content, and a call raises only on a launch/write failure or an unreadable or
\* undecodable file, never on a non-zero exit status by itself.
C7_VerdictIgnoresExitStatus ==
    \A i \in JobIds :
        /\ (jobs[i].st \in {"passed", "failed"} =>
              ((jobs[i].st = "passed") <=>
                  AllPairsMatch(normalize_file_lines(jobs[i].hist.expdata),
                                normalize_file_lines(jobs[i].stdout))))
        /\ (jobs[i].st = "raised" =>
              \/ jobs[i].hist.fault # "none"
              \/ ~jobs[i].expOk
              \/ ~Decodable(jobs[i].hist.expdata)
              \/ ~Decodable(jobs[i].stdout))

\* A script that exited non-zero is recorded as passed
C7_Witness ==
    \E i \in JobIds : jobs[i].st = "passed" /\ jobs[i].hist.rc # 0 /\ jobs[i].hist.recorded

\* C10: the output path ends in .xz, and the output is written compressed,
\* exactly when the expected path is the .exp.xz variant, which is chosen
\* exactly when the plain .exp file is not readable and the .exp.xz file is.
C10_SameCompressionMarker ==
    \A i \in JobIds :
        Started(i) =>
            /\ EndsWithExt(jobs[i].outfile, ".xz") <=> EndsWithExt(jobs[i].expfile, ".xz")
            /\ EndsWithExt(jobs[i].expfile, ".xz") <=> (~jobs[i].hist.expR /\ jobs[i].hist.xzR)
            /\ jobs[i].expfile =
                 str_replace(tests[i], TEST_EXT, <<".exp">>)
                    \o (IF ~jobs[i].hist.expR /\ jobs[i].hist.xzR THEN <<".xz">> ELSE <<>>)
            /\ (jobs[i].st \in {"ran", "failed"} =>
                  FileAt(tmpdir, jobs[i].outfile).xz = EndsWithExt(jobs[i].expfile, ".xz"))

\* An output written compressed beside a compressed expected file
C10_Witness ==
    \E i \in JobIds :
        /\ jobs[i].st = "ran"
        /\ jobs[i].hist.recorded /\ ~jobs[i].hist.expR /\ jobs[i].hist.xzR
        /\ FileAt(tmpdir, jobs[i].outfile).xz

====
